---- MODULE Spec2Model ----
(***************************************************************************)
(* A model of libpylamsupport's LambdaBuilder.c: the late-binding bridge   *)
(* between a host process and an embedded Python runtime.                  *)
(*                                                                         *)
(* The bridge is a table of function-pointer slots filled by               *)
(* initialisePythonLibrary and a set of thin operations that call through  *)
(* the slots.  Every bridge operation is one atomic action (the code is    *)
(* single threaded and synchronous).  The runtime behind the slots is      *)
(* modelled by the operators named after the C-API entry points the slots  *)
(* are resolved to; each returns the runtime state after the call and the  *)
(* value handed back to the bridge.                                        *)
(*                                                                         *)
(* Four specifications share the variables:                                *)
(*   SpecSymbolTable  initialisation, slot resolution, the fail-fast check *)
(*   SpecParser       the argument parser on the bundles of a callback     *)
(*   SpecWrapper      the value wrapper, and the parser on what it returns *)
(*   SpecBridge       execution, namespace, attribute and error-state ops  *)
(***************************************************************************)
EXTENDS Integers, Sequences, FiniteSets, TLC

VARIABLES
    build,                  \* which branch of the #ifdef at LambdaBuilder.c:39 was compiled
    _pythonLibraryHandle,   \* static void* _pythonLibraryHandle
    slots,                  \* the 22 function-pointer globals, by name
    alive,                  \* the host process is still running
    exitStatus,             \* its exit status once it is not
    stdout,                 \* what the bridge printed on standard output
    errInd,                 \* the runtime's error indicator (PyErr_Occurred)
    dicts,                  \* the runtime's dictionaries: id -> key -> object or NULL
    attrs,                  \* the runtime's attribute tables: object id -> name -> object or NULL
    held,                   \* the reference the host got from the last value wrapper
    heldFrom,               \* that wrapper and the native value it was given
    handleBefore,           \* _pythonLibraryHandle as the last operation found it
    op,                     \* the bridge operation that ran last
    args,                   \* its arguments
    ret,                    \* what it returned
    outs,                   \* what it stored through its output pointers
    calls                   \* the runtime entry points it invoked, in order

vars ==
    <<build, _pythonLibraryHandle, slots, alive, exitStatus, stdout, errInd, dicts,
      attrs, held, heldFrom, handleBefore, op, args, ret, outs, calls>>

procVars == <<alive, exitStatus, stdout>>
tableVars == <<build, _pythonLibraryHandle, slots>>
runtimeVars == <<errInd, dicts, attrs>>
hostVars == <<held, heldFrom>>

(***************************************************************************)
(* Bounds of the model.                                                    *)
(***************************************************************************)
\* the longest C string (in bytes) the host passes in
MaxStrLen == 2
\* the width of the modelled C long, in bits
LongBits == 8

(***************************************************************************)
(* Values.                                                                 *)
(***************************************************************************)
NULL == [kind |-> "NULL"]
\* a value the caller has no right to read: the content of an uninitialised local
Indeterminate == [kind |-> "indeterminate"]
\* the value of an expression that never yields one (the call did not return)
NoReturn == [kind |-> "noreturn"]
Void == [kind |-> "void"]
NoError == "NoError"

\* The 22 slots declared at LambdaBuilder.c:13-35, with the symbol each is resolved to.
SymbolOf ==
    [ pyarg_parsetuple        |-> "PyArg_ParseTuple",
      py_buildvalue           |-> "Py_BuildValue",
      pyunicode_asutf8        |-> "PyUnicode_AsUTF8",
      pyunicode_fromstring    |-> "PyUnicode_FromString",
      py_createPyCFunction    |-> "PyCFunction_NewEx",
      py_boolfromlong         |-> "PyBool_FromLong",
      py_runString            |-> "PyRun_String",
      py_errorprint           |-> "PyErr_Print",
      py_getitemstring        |-> "PyDict_GetItemString",
      py_setitemstring        |-> "PyDict_SetItemString",
      py_evalgetbuiltins      |-> "PyEval_GetBuiltins",
      py_getglobals           |-> "PyEval_GetGlobals",
      py_import_addmodule     |-> "PyImport_AddModule",
      py_import_getmodule     |-> "PyImport_GetModule",
      py_module_getdict       |-> "PyModule_GetDict",
      py_object_getattrstring |-> "PyObject_GetAttrString",
      py_object_setattrstring |-> "PyObject_SetAttrString",
      py_run_interactiveone   |-> "PyRun_InteractiveOne",
      py_error_clear          |-> "PyErr_Clear",
      py_compile_string       |-> "Py_CompileString",
      py_err_occurred         |-> "PyErr_Occurred",
      py_execute              |-> "PyRun_SimpleString" ]

SlotNames == DOMAIN SymbolOf
Symbols == {SymbolOf[s] : s \in SlotNames}

\* The slots the _WIN32 branch assigns (LambdaBuilder.c:40-45).
Win32Slots ==
    {"pyarg_parsetuple", "py_buildvalue", "pyunicode_asutf8", "pyunicode_fromstring",
     "py_boolfromlong", "py_createPyCFunction"}

\* A loaded library: identified by the entry points it lacks.  The libraries the
\* initialiser is handed: the complete one, each one that lacks a single entry point,
\* and one that lacks both string entry points.
MissingSets ==
    {{}} \cup {{sym} : sym \in Symbols} \cup {{"PyUnicode_FromString", "PyUnicode_AsUTF8"}}
Libraries == {[kind |-> "lib", missing |-> S] : S \in MissingSets}
FullLibrary == [kind |-> "lib", missing |-> {}]
Exports(h) == Symbols \ h.missing

\* The address of symbol sym in library h.
Addr(h, sym) == [kind |-> "fn", lib |-> h, sym |-> sym]

\* dlsym / GetProcAddress: the symbol's address, or NULL when the library lacks it.
\* A NULL handle names no loaded library here, so nothing resolves against it.
dlsym(h, sym) ==
    IF h # NULL /\ sym \in Exports(h) THEN Addr(h, sym) ELSE NULL

(***************************************************************************)
(* initialisePythonLibrary (LambdaBuilder.c:37-75).                        *)
(***************************************************************************)
\* The handle the lookups read.  Line 38 stores the argument into the static before
\* the dlsym calls of lines 47-73 read the static (GetProcAddress reads the argument).
\* ResolveHandle_stale: the lookups read the static as it was before line 38.
ResolveHandle_stale(libraryHandle) == _pythonLibraryHandle
ResolveHandle(libraryHandle) == libraryHandle

\* The slots the compiled branch assigns.
AssignedSlots(b) == IF b = "_WIN32" THEN Win32Slots ELSE SlotNames

\* The table after the call: an assigned slot holds what the lookup gave, every other
\* slot keeps its value.
SlotsAfterInit(b, old, libraryHandle) ==
    [s \in SlotNames |->
        IF s \in AssignedSlots(b)
        THEN dlsym(ResolveHandle(libraryHandle), SymbolOf[s])
        ELSE old[s]]

EmptySlots == [s \in SlotNames |-> NULL]

Observe(o, a, r, u, c) ==
    /\ op' = o
    /\ args' = a
    /\ ret' = r
    /\ outs' = u
    /\ calls' = c
    /\ handleBefore' = _pythonLibraryHandle

initialisePythonLibrary(libraryHandle) ==
    /\ alive
    /\ _pythonLibraryHandle' = libraryHandle
    /\ slots' = SlotsAfterInit(build, slots, libraryHandle)
    \* the function is declared int and returns nothing: its value is indeterminate
    /\ Observe("initialisePythonLibrary", <<libraryHandle>>, Indeterminate, <<>>, <<>>)
    /\ UNCHANGED <<build, procVars, runtimeVars, hostVars>>

(***************************************************************************)
(* Native values and runtime objects.                                      *)
(***************************************************************************)
\* The bytes C strings are built from: 'a', and the two bytes of U+00E9 in UTF-8
\* (a lead byte and a continuation byte, each invalid on its own).
Bytes == {97, 195, 169}
RECURSIVE SeqsUpTo(_, _)
SeqsUpTo(S, n) ==
    IF n = 0 THEN {<<>>}
    ELSE LET shorter == SeqsUpTo(S, n - 1)
         IN  shorter \cup {Append(q, x) : q \in {t \in shorter : Len(t) = n - 1}, x \in S}
CString(b) == [kind |-> "cstr", bytes |-> b]
CStrings == {CString(b) : b \in SeqsUpTo(Bytes, MaxStrLen)}

LONG_MAX == 2 ^ (LongBits - 1) - 1
LONG_MIN == 0 - LONG_MAX - 1
\* the C longs the host passes in
Longs == {LONG_MIN, -1, 0, 1, 42, LONG_MAX}
\* the C doubles the host passes in, as fractions
Double(n, d) == [kind |-> "double", num |-> n, den |-> d]
Doubles == {Double(1, 2), Double(42, 1)}

PyLong(n) == [kind |-> "int", val |-> n]
PyBool(b) == [kind |-> "bool", val |-> b]
PyFloat(d) == [kind |-> "float", val |-> d]
PyStr(cps) == [kind |-> "str", cps |-> cps]
PyTuple(items) == [kind |-> "tuple", items |-> items]
Py_None == [kind |-> "none"]
Obj(i) == [kind |-> "obj", id |-> i]
DictRef(i) == [kind |-> "dict", id |-> i]
ModuleRef(n) == [kind |-> "module", name |-> n]
CodeObj(c) == [kind |-> "code", text |-> c]
Builtins == DictRef("builtins")

\* UTF-8, one- and two-byte sequences: the code points of a byte string, or
\* "invalid" when it is not well formed.
RECURSIVE Utf8Decode(_)
Utf8Decode(b) ==
    IF b = <<>> THEN <<>>
    ELSE IF Head(b) < 128
         THEN LET rest == Utf8Decode(Tail(b))
              IN  IF rest = "invalid" THEN "invalid" ELSE <<Head(b)>> \o rest
    ELSE IF Head(b) >= 194 /\ Head(b) < 224 /\ Len(b) >= 2 /\ b[2] >= 128 /\ b[2] < 192
         THEN LET rest == Utf8Decode(Tail(Tail(b)))
              IN  IF rest = "invalid" THEN "invalid"
                  ELSE <<(Head(b) - 192) * 64 + (b[2] - 128)>> \o rest
    ELSE "invalid"

RECURSIVE Utf8Encode(_)
Utf8Encode(cps) ==
    IF cps = <<>> THEN <<>>
    ELSE IF Head(cps) < 128 THEN <<Head(cps)>> \o Utf8Encode(Tail(cps))
    ELSE <<192 + (Head(cps) \div 64), 128 + (Head(cps) % 64)>> \o Utf8Encode(Tail(cps))

(***************************************************************************)
(* The runtime behind the slots.  rt is the runtime's state; each entry    *)
(* point gives the state after the call and the value it returns.          *)
(***************************************************************************)
RT == [err |-> errInd, dicts |-> dicts, attrs |-> attrs]
Res(rt, r) == [rt |-> rt, ret |-> r]
Raise(rt, e) == [rt EXCEPT !.err = e]

DictIds == {"main", "g1"}
Keys == {"__builtins__", "k"}
ObjIds == {"o1", "o2"}
AttrNames == {"a"}
IsDict(o) == o.kind = "dict" /\ o.id \in DictIds
HasAttrs(o) == o.kind = "obj"

\* PyDict_GetItemString: the borrowed value, or NULL when the key is absent or the
\* target is no dictionary; it never leaves an error pending.
PyDict_GetItemString(rt, d, key) ==
    IF IsDict(d) THEN Res(rt, rt.dicts[d.id][key]) ELSE Res(rt, NULL)

\* PyDict_SetItemString: 0 and the binding written, or -1 with SystemError pending
\* when the target is no dictionary.
PyDict_SetItemString(rt, d, key, v) ==
    IF IsDict(d)
    THEN Res([rt EXCEPT !.dicts[d.id][key] = v], 0)
    ELSE Res(Raise(rt, "SystemError"), -1)

PyEval_GetBuiltins(rt) == Res(rt, Builtins)
PyImport_AddModule(rt, name) == Res(rt, ModuleRef(name))
PyModule_GetDict(rt, m) ==
    IF m.kind = "module" /\ m.name = "__main__" THEN Res(rt, DictRef("main"))
    ELSE Res(Raise(rt, "SystemError"), NULL)

\* PyObject_GetAttrString: a reference to the attribute, or NULL with AttributeError.
PyObject_GetAttrString(rt, o, name) ==
    IF HasAttrs(o) /\ rt.attrs[o.id][name] # NULL
    THEN Res(rt, rt.attrs[o.id][name])
    ELSE Res(Raise(rt, "AttributeError"), NULL)

\* PyObject_SetAttrString: 0 and the attribute set (deleted when v is NULL), or -1
\* with AttributeError when the object takes no such attribute or there is none to
\* delete.
PyObject_SetAttrString(rt, o, name, v) ==
    IF HasAttrs(o) /\ (v # NULL \/ rt.attrs[o.id][name] # NULL)
    THEN Res([rt EXCEPT !.attrs[o.id][name] = v], 0)
    ELSE Res(Raise(rt, "AttributeError"), -1)

\* The start tokens of Python.h.
Py_file_input == 257
Py_eval_input == 258
StartModes == {Py_file_input, Py_eval_input}
\* Source texts: an expression, a text that does not parse, a text that raises.
Codes == {"42", "(", "1/0"}

\* Py_CompileString: a code object, or NULL with SyntaxError pending.
Py_CompileString(rt, code, filename, start) ==
    IF code = "(" THEN Res(Raise(rt, "SyntaxError"), NULL) ELSE Res(rt, CodeObj(code))

\* PyRun_String: the value of the text (None for module-level text), or NULL with
\* the error pending.
PyRun_String(rt, code, start, g, l) ==
    CASE code = "(" -> Res(Raise(rt, "SyntaxError"), NULL)
      [] code = "1/0" -> Res(Raise(rt, "ZeroDivisionError"), NULL)
      [] OTHER -> Res(rt, IF start = Py_eval_input THEN PyLong(42) ELSE Py_None)

\* PyErr_Print writes the pending error to standard error and clears the indicator.
PyErr_Print(rt) == Res([rt EXCEPT !.err = NoError], Void)
PyErr_Clear(rt) == Res([rt EXCEPT !.err = NoError], Void)
\* PyErr_Occurred: the pending error's type (borrowed), or NULL.
PyErr_Occurred(rt) ==
    Res(rt, IF rt.err = NoError THEN NULL ELSE [kind |-> "exctype", name |-> rt.err])

\* PyRun_SimpleString runs the text in __main__; an error is printed and cleared.
PyRun_SimpleString(rt, code) ==
    LET r == PyRun_String(rt, code, Py_file_input, DictRef("main"), DictRef("main"))
    IN  IF r.ret = NULL THEN Res(PyErr_Print(r.rt).rt, -1) ELSE Res(r.rt, 0)

\* PyUnicode_FromString: a new str decoded from UTF-8, or NULL with
\* UnicodeDecodeError pending.
PyUnicode_FromString(rt, u) ==
    IF Utf8Decode(u.bytes) = "invalid" THEN Res(Raise(rt, "UnicodeDecodeError"), NULL)
    ELSE Res(rt, PyStr(Utf8Decode(u.bytes)))

\* PyUnicode_AsUTF8: the UTF-8 bytes of a str, or NULL with TypeError pending.
PyUnicode_AsUTF8(rt, p) ==
    IF p.kind = "str" THEN Res(rt, CString(Utf8Encode(p.cps)))
    ELSE Res(Raise(rt, "TypeError"), NULL)

PyBool_FromLong(rt, v) == Res(rt, PyBool(IF v # 0 THEN 1 ELSE 0))

\* The conversion units of each format string the bridge passes.
FormatUnits ==
    [ s |-> <<"s">>, d |-> <<"d">>, l |-> <<"l">>, O |-> <<"O">>,
      OO |-> <<"O", "O">>, OOO |-> <<"O", "O", "O">> ]

\* Py_BuildValue with a one-unit format: the new object itself (no tuple is built
\* around a single unit), or NULL with an error pending.
Py_BuildValue(rt, fmt, v) ==
    CASE fmt = "l" -> Res(rt, PyLong(v))
      [] fmt = "d" -> Res(rt, PyFloat(v))
      [] fmt = "s" ->
            IF v = NULL THEN Res(rt, Py_None)
            ELSE IF Utf8Decode(v.bytes) = "invalid"
            THEN Res(Raise(rt, "UnicodeDecodeError"), NULL)
            ELSE Res(rt, PyStr(Utf8Decode(v.bytes)))
      [] fmt = "O" ->
            IF v # NULL THEN Res(rt, v)
            ELSE Res(IF rt.err = NoError THEN Raise(rt, "SystemError") ELSE rt, NULL)

\* One conversion unit of PyArg_ParseTuple: the native value, or the error raised.
ConvertUnit(unit, item) ==
    CASE unit = "O" -> [ok |-> TRUE, val |-> item]
      [] unit = "s" ->
            IF item.kind = "str" THEN [ok |-> TRUE, val |-> CString(Utf8Encode(item.cps))]
            ELSE [ok |-> FALSE, err |-> "TypeError"]
      [] unit = "d" ->
            IF item.kind = "float" THEN [ok |-> TRUE, val |-> item.val]
            ELSE IF item.kind \in {"int", "bool"} THEN [ok |-> TRUE, val |-> Double(item.val, 1)]
            ELSE [ok |-> FALSE, err |-> "TypeError"]
      [] unit = "l" ->
            IF item.kind \in {"int", "bool"}
            THEN IF item.val >= LONG_MIN /\ item.val <= LONG_MAX
                 THEN [ok |-> TRUE, val |-> item.val]
                 ELSE [ok |-> FALSE, err |-> "OverflowError"]
            ELSE [ok |-> FALSE, err |-> "TypeError"]

\* PyArg_ParseTuple: 1 and the converted values, in order, or 0 with an error pending
\* and nothing stored: when the bundle is no tuple (SystemError), when it holds another
\* number of items than the format has units (TypeError), when an item does not convert.
PyArg_ParseTuple(rt, a, fmt) ==
    LET units == FormatUnits[fmt]
    IN  IF a.kind # "tuple" THEN [rt |-> Raise(rt, "SystemError"), ret |-> 0, vals |-> <<>>]
        ELSE IF Len(a.items) # Len(units)
        THEN [rt |-> Raise(rt, "TypeError"), ret |-> 0, vals |-> <<>>]
        ELSE LET conv == [i \in 1..Len(units) |-> ConvertUnit(units[i], a.items[i])]
                 bad == {i \in 1..Len(units) : ~conv[i].ok}
             IN  IF bad = {}
                 THEN [rt |-> rt, ret |-> 1, vals |-> [i \in 1..Len(units) |-> conv[i].val]]
                 ELSE [rt |-> Raise(rt, conv[CHOOSE i \in bad : \A j \in bad : i <= j].err),
                       ret |-> 0, vals |-> <<>>]

(***************************************************************************)
(* Calling through a slot.                                                 *)
(***************************************************************************)
Resolved(s) == slots[s] # NULL

\* The record of one call through a slot: the address called, the arguments, the
\* value returned, the error indicator after the call, and, for a call that is handed
\* a dictionary, the binding of "__builtins__" the callee finds in it.
Invoke(slot, a, res, sees) ==
    [fn |-> slots[slot], args |-> a, ret |-> res.ret, err |-> res.rt.err, sees |-> sees]

SetRuntime(rt) ==
    /\ errInd' = rt.err
    /\ dicts' = rt.dicts
    /\ attrs' = rt.attrs

\* What a C local that was never assigned may hold when it is read.
Wild == [kind |-> "wild"]
JunkPointers == {NULL, Wild}
JunkLongs == {0, LONG_MIN}
JunkDoubles == {Double(0, 1), Double(1, 2)}

(***************************************************************************)
(* Argument parser (LambdaBuilder.c:77-130).                               *)
(***************************************************************************)
\* the local `value`: what the parse stored when it succeeded, else what it held
Local(r, i, junk) == IF r.ret # 0 THEN r.vals[i] ELSE junk

\* the status stored through `error`: the int PyArg_ParseTuple returned
\* StatusOf_negated: the status turned into an error flag (nonzero = failure)
StatusOf_negated(r) == IF r.ret = 0 THEN 1 ELSE 0
StatusOf(r) == r.ret

parseArgsToString(a) ==
    /\ alive /\ Resolved("pyarg_parsetuple")
    /\ \E junk \in JunkPointers :
        LET r == PyArg_ParseTuple(RT, a, "s")
        IN  /\ SetRuntime(r.rt)
            /\ Observe("parseArgsToString", <<a>>, Local(r, 1, junk), [error |-> StatusOf(r)],
                       <<Invoke("pyarg_parsetuple", <<a, "s">>, r, NULL)>>)
    /\ UNCHANGED <<tableVars, procVars, hostVars>>

parseArgsToDouble(a) ==
    /\ alive /\ Resolved("pyarg_parsetuple")
    /\ \E junk \in JunkDoubles :
        LET r == PyArg_ParseTuple(RT, a, "d")
        IN  /\ SetRuntime(r.rt)
            /\ Observe("parseArgsToDouble", <<a>>, Local(r, 1, junk), [error |-> StatusOf(r)],
                       <<Invoke("pyarg_parsetuple", <<a, "d">>, r, NULL)>>)
    /\ UNCHANGED <<tableVars, procVars, hostVars>>

parseArgsToLongInt(a) ==
    /\ alive /\ Resolved("pyarg_parsetuple")
    /\ \E junk \in JunkLongs :
        LET r == PyArg_ParseTuple(RT, a, "l")
        IN  /\ SetRuntime(r.rt)
            /\ Observe("parseArgsToLongInt", <<a>>, Local(r, 1, junk), [error |-> StatusOf(r)],
                       <<Invoke("pyarg_parsetuple", <<a, "l">>, r, NULL)>>)
    /\ UNCHANGED <<tableVars, procVars, hostVars>>

parseArgsToObject(a) ==
    /\ alive /\ Resolved("pyarg_parsetuple")
    /\ \E junk \in JunkPointers :
        LET r == PyArg_ParseTuple(RT, a, "O")
        IN  /\ SetRuntime(r.rt)
            /\ Observe("parseArgsToObject", <<a>>, Local(r, 1, junk), [error |-> StatusOf(r)],
                       <<Invoke("pyarg_parsetuple", <<a, "O">>, r, NULL)>>)
    /\ UNCHANGED <<tableVars, procVars, hostVars>>

parseArgsToObjectPair(a) ==
    /\ alive /\ Resolved("pyarg_parsetuple")
    /\ \E junkA \in JunkPointers, junkB \in JunkPointers :
        LET r == PyArg_ParseTuple(RT, a, "OO")
        IN  /\ SetRuntime(r.rt)
            /\ Observe("parseArgsToObjectPair", <<a>>, Local(r, 1, junkA),
                       [error |-> StatusOf(r), objectB |-> Local(r, 2, junkB)],
                       <<Invoke("pyarg_parsetuple", <<a, "OO">>, r, NULL)>>)
    /\ UNCHANGED <<tableVars, procVars, hostVars>>

parseArgsToObjectTriple(a) ==
    /\ alive /\ Resolved("pyarg_parsetuple")
    /\ \E junkA \in JunkPointers, junkB \in JunkPointers, junkC \in JunkPointers :
        LET r == PyArg_ParseTuple(RT, a, "OOO")
        IN  /\ SetRuntime(r.rt)
            /\ Observe("parseArgsToObjectTriple", <<a>>, Local(r, 1, junkA),
                       [error |-> StatusOf(r), objectB |-> Local(r, 2, junkB),
                        objectC |-> Local(r, 3, junkC)],
                       <<Invoke("pyarg_parsetuple", <<a, "OOO">>, r, NULL)>>)
    /\ UNCHANGED <<tableVars, procVars, hostVars>>

(***************************************************************************)
(* Value wrapper (LambdaBuilder.c:132-155) and stringFromPythonObject.     *)
(***************************************************************************)
\* the format each wrapper passes
\* WrapFormat_d: wrapLongInt passes wrapDouble's format
WrapFormat_d == [wrapLongInt |-> "d", wrapString |-> "s", wrapDouble |-> "d", wrapObject |-> "O"]
WrapFormat == [wrapLongInt |-> "l", wrapString |-> "s", wrapDouble |-> "d", wrapObject |-> "O"]

Wrap(name, value) ==
    /\ alive /\ Resolved("py_buildvalue")
    /\ LET r == Py_BuildValue(RT, WrapFormat[name], value)
       IN  /\ SetRuntime(r.rt)
           /\ held' = r.ret
           /\ heldFrom' = [by |-> name, val |-> value]
           /\ Observe(name, <<value>>, r.ret, <<>>,
                      <<Invoke("py_buildvalue", <<WrapFormat[name], value>>, r, NULL)>>)
    /\ UNCHANGED <<tableVars, procVars>>

wrapLongInt(value) == Wrap("wrapLongInt", value)
wrapString(value) == Wrap("wrapString", value)
wrapDouble(value) == Wrap("wrapDouble", value)
wrapObject(value) == Wrap("wrapObject", value)

wrapBool(value) ==
    /\ alive /\ Resolved("py_boolfromlong")
    /\ LET r == PyBool_FromLong(RT, value)
       IN  /\ SetRuntime(r.rt)
           /\ held' = r.ret
           /\ heldFrom' = [by |-> "wrapBool", val |-> value]
           /\ Observe("wrapBool", <<value>>, r.ret, <<>>,
                      <<Invoke("py_boolfromlong", <<value>>, r, NULL)>>)
    /\ UNCHANGED <<tableVars, procVars>>

stringFromPythonObject(p) ==
    /\ alive /\ Resolved("pyunicode_asutf8")
    /\ LET r == PyUnicode_AsUTF8(RT, p)
       IN  /\ SetRuntime(r.rt)
           /\ Observe("stringFromPythonObject", <<p>>, r.ret, <<>>,
                      <<Invoke("pyunicode_asutf8", <<p>>, r, NULL)>>)
    /\ UNCHANGED <<tableVars, procVars, hostVars>>

(***************************************************************************)
(* getPyUnicode_FromString (LambdaBuilder.c:198-204).                      *)
(***************************************************************************)
Python2Message == "Lambda functions not available on Python 2!\n"

\* the test of line 199
\* SlotIsNil_never: the function without the test
SlotIsNil_never(s) == FALSE
SlotIsNil(s) == slots[s] = NULL

\* A call through a nil slot: the process dies on the null function pointer.
Crash(o, a) ==
    /\ alive' = FALSE
    /\ exitStatus' = [kind |-> "signal", name |-> "SIGSEGV"]
    /\ Observe(o, a, NoReturn, <<>>, <<>>)
    /\ UNCHANGED <<stdout, tableVars, runtimeVars, hostVars>>

getPyUnicode_FromString(u) ==
    /\ alive
    /\ IF SlotIsNil("pyunicode_fromstring")
       THEN /\ stdout' = Append(stdout, Python2Message)
            /\ alive' = FALSE
            /\ exitStatus' = [kind |-> "exit", status |-> 1]
            /\ Observe("getPyUnicode_FromString", <<u>>, NoReturn, <<>>, <<>>)
            /\ UNCHANGED <<tableVars, runtimeVars, hostVars>>
       ELSE IF ~Resolved("pyunicode_fromstring")
       THEN \* line 203 reached with a nil slot
            Crash("getPyUnicode_FromString", <<u>>)
       ELSE LET r == PyUnicode_FromString(RT, u)
            IN  /\ SetRuntime(r.rt)
                /\ Observe("getPyUnicode_FromString", <<u>>, r.ret, <<>>,
                           <<Invoke("pyunicode_fromstring", <<u>>, r, NULL)>>)
                /\ UNCHANGED <<tableVars, procVars, hostVars>>

(***************************************************************************)
(* Error-state operations (LambdaBuilder.c:261-267, 277-279).              *)
(***************************************************************************)
printErrors ==
    /\ alive /\ Resolved("py_errorprint")
    /\ LET r == PyErr_Print(RT)
       IN  /\ SetRuntime(r.rt)
           /\ Observe("printErrors", <<>>, Void, <<>>, <<Invoke("py_errorprint", <<>>, r, NULL)>>)
    /\ UNCHANGED <<tableVars, procVars, hostVars>>

clearErrors ==
    /\ alive /\ Resolved("py_error_clear")
    /\ LET r == PyErr_Clear(RT)
       IN  /\ SetRuntime(r.rt)
           /\ Observe("clearErrors", <<>>, Void, <<>>, <<Invoke("py_error_clear", <<>>, r, NULL)>>)
    /\ UNCHANGED <<tableVars, procVars, hostVars>>

errorRaised ==
    /\ alive /\ Resolved("py_err_occurred")
    /\ LET r == PyErr_Occurred(RT)
       IN  /\ SetRuntime(r.rt)
           /\ Observe("errorRaised", <<>>, r.ret, <<>>, <<Invoke("py_err_occurred", <<>>, r, NULL)>>)
    /\ UNCHANGED <<tableVars, procVars, hostVars>>

(***************************************************************************)
(* executePythonCode (LambdaBuilder.c:214-228).                            *)
(***************************************************************************)
BuiltinsKey == "__builtins__"

\* py_setitemstring is declared to return PyObject* while PyDict_SetItemString
\* returns int: the bridge compares a pointer-wide value whose low half is the int
\* and whose high half the callee never set.
AsPointer(i, high) == [low |-> i, high |-> high]
IsNullPointer(p) == p.low = 0 /\ p.high = 0
HighHalves == {0, 1}

\* the binding of "__builtins__" a callee handed dictionary g finds
Sees(rt, g) == IF IsDict(g) THEN rt.dicts[g.id][BuiltinsKey] ELSE NULL

\* lines 222-225: which error entry point runs after the text
\* ReportSlot_both: the else is lost and both run; ReportSlot_none: neither runs
ReportSlot_both(showErrors) == <<"py_errorprint", "py_error_clear">>
ReportSlot_none(showErrors) == <<>>
ReportSlot(showErrors) == IF showErrors # 0 THEN <<"py_errorprint">> ELSE <<"py_error_clear">>

RECURSIVE Report(_, _)
\* the calls of printErrors() / clearErrors(), one after the other
Report(rt, slotSeq) ==
    IF slotSeq = <<>> THEN [rt |-> rt, calls |-> <<>>]
    ELSE LET r == IF Head(slotSeq) = "py_errorprint" THEN PyErr_Print(rt) ELSE PyErr_Clear(rt)
             more == Report(r.rt, Tail(slotSeq))
         IN  [rt |-> more.rt, calls |-> <<Invoke(Head(slotSeq), <<>>, r, NULL)>> \o more.calls]

\* line 215: whether the lookup says the injection is needed
\* NeedsInjection_never: the text is run without the lookup's result being acted on
NeedsInjection_never(found) == FALSE
NeedsInjection(found) == found = NULL

\* lines 220-227: run the text, then print or clear, and return the run's value
RunAndReport(rt, pre, code, start, g, l, showErrors) ==
    LET run == PyRun_String(rt, code, start, g, l)
        rep == Report(run.rt, ReportSlot(showErrors))
    IN  [rt |-> rep.rt, ret |-> run.ret,
         calls |-> pre \o <<Invoke("py_runString", <<code, start, g, l>>, run, Sees(rt, g))>>
                      \o rep.calls]

\* The whole function: the runtime state after it, its return value and its calls.
Execute(rt, code, start, g, l, showErrors, high) ==
    LET look == PyDict_GetItemString(rt, g, BuiltinsKey)
        c1 == <<Invoke("py_getitemstring", <<g, BuiltinsKey>>, look, Sees(rt, g))>>
    IN  IF NeedsInjection(look.ret)
        THEN LET b == PyEval_GetBuiltins(look.rt)
                 set == PyDict_SetItemString(b.rt, g, BuiltinsKey, b.ret)
                 c3 == c1 \o <<Invoke("py_evalgetbuiltins", <<>>, b, NULL),
                               Invoke("py_setitemstring", <<g, BuiltinsKey, b.ret>>, set,
                                      Sees(b.rt, g))>>
             IN  IF ~IsNullPointer(AsPointer(set.ret, high))
                 THEN [rt |-> set.rt, ret |-> NULL, calls |-> c3]
                 ELSE RunAndReport(set.rt, c3, code, start, g, l, showErrors)
        ELSE RunAndReport(look.rt, c1, code, start, g, l, showErrors)

ExecSlots ==
    {"py_getitemstring", "py_setitemstring", "py_evalgetbuiltins", "py_runString",
     "py_errorprint", "py_error_clear"}

executePythonCode(code, start, g, l, showErrors) ==
    /\ alive /\ \A s \in ExecSlots : Resolved(s)
    /\ \E high \in IF NeedsInjection(PyDict_GetItemString(RT, g, BuiltinsKey).ret)
                     THEN HighHalves ELSE {0} :
        LET x == Execute(RT, code, start, g, l, showErrors, high)
        IN  /\ SetRuntime(x.rt)
            /\ Observe("executePythonCode", <<code, start, g, l, showErrors>>, x.ret, <<>>, x.calls)
    /\ UNCHANGED <<tableVars, procVars, hostVars>>

(***************************************************************************)
(* Global namespace (LambdaBuilder.c:234-246), attributes (249-255),       *)
(* getModule (257-259), compileString (273-275), executeOnMain (281-283).  *)
(***************************************************************************)
\* the module whose dictionary the getter resolves
\* GetterModule_other: the getter resolves another module than the setter
GetterModule_other == "__lambda__"
GetterModule == "__main__"

setItemInGlobalDictionary(key, value) ==
    /\ alive
    /\ Resolved("py_import_addmodule") /\ Resolved("py_module_getdict") /\ Resolved("py_setitemstring")
    /\ LET m == PyImport_AddModule(RT, "__main__")
           d == PyModule_GetDict(m.rt, m.ret)
           set == PyDict_SetItemString(d.rt, d.ret, key, value)
       IN  /\ SetRuntime(set.rt)
           /\ Observe("setItemInGlobalDictionary", <<key, value>>, Void, <<>>,
                      <<Invoke("py_import_addmodule", <<"__main__">>, m, NULL),
                        Invoke("py_module_getdict", <<m.ret>>, d, NULL),
                        Invoke("py_setitemstring", <<d.ret, key, value>>, set, Sees(d.rt, d.ret))>>)
    /\ UNCHANGED <<tableVars, procVars, hostVars>>

getItemFromGlobalDictionary(key) ==
    /\ alive
    /\ Resolved("py_import_addmodule") /\ Resolved("py_module_getdict") /\ Resolved("py_getitemstring")
    /\ LET m == PyImport_AddModule(RT, GetterModule)
           d == PyModule_GetDict(m.rt, m.ret)
           get == PyDict_GetItemString(d.rt, d.ret, key)
       IN  /\ SetRuntime(get.rt)
           /\ Observe("getItemFromGlobalDictionary", <<key>>, get.ret, <<>>,
                      <<Invoke("py_import_addmodule", <<GetterModule>>, m, NULL),
                        Invoke("py_module_getdict", <<m.ret>>, d, NULL),
                        Invoke("py_getitemstring", <<d.ret, key>>, get, Sees(d.rt, d.ret))>>)
    /\ UNCHANGED <<tableVars, procVars, hostVars>>

getAttrString(obj, attr) ==
    /\ alive /\ Resolved("py_object_getattrstring")
    /\ LET r == PyObject_GetAttrString(RT, obj, attr)
       IN  /\ SetRuntime(r.rt)
           /\ Observe("getAttrString", <<obj, attr>>, r.ret, <<>>,
                      <<Invoke("py_object_getattrstring", <<obj, attr>>, r, NULL)>>)
    /\ UNCHANGED <<tableVars, procVars, hostVars>>

\* line 254: the flag made of the runtime's status
\* SuccessFlag_raw: the status returned as it is, without the comparison with 0
SuccessFlag_raw(status) == status
SuccessFlag(status) == IF status = 0 THEN 1 ELSE 0

setAttrString(obj, attr, value) ==
    /\ alive /\ Resolved("py_object_setattrstring")
    /\ LET r == PyObject_SetAttrString(RT, obj, attr, value)
       IN  /\ SetRuntime(r.rt)
           /\ Observe("setAttrString", <<obj, attr, value>>, SuccessFlag(r.ret), <<>>,
                      <<Invoke("py_object_setattrstring", <<obj, attr, value>>, r, NULL)>>)
    /\ UNCHANGED <<tableVars, procVars, hostVars>>

\* getModule ignores its argument and asks for "__main__"
getModule(name) ==
    /\ alive /\ Resolved("py_import_addmodule")
    /\ LET r == PyImport_AddModule(RT, "__main__")
       IN  /\ SetRuntime(r.rt)
           /\ Observe("getModule", <<name>>, r.ret, <<>>,
                      <<Invoke("py_import_addmodule", <<"__main__">>, r, NULL)>>)
    /\ UNCHANGED <<tableVars, procVars, hostVars>>

compileString(code, name, start) ==
    /\ alive /\ Resolved("py_compile_string")
    /\ LET r == Py_CompileString(RT, code, name, start)
       IN  /\ SetRuntime(r.rt)
           /\ Observe("compileString", <<code, name, start>>, r.ret, <<>>,
                      <<Invoke("py_compile_string", <<code, name, start>>, r, NULL)>>)
    /\ UNCHANGED <<tableVars, procVars, hostVars>>

executeOnMain(code) ==
    /\ alive /\ Resolved("py_execute")
    /\ LET r == PyRun_SimpleString(RT, code)
       IN  /\ SetRuntime(r.rt)
           /\ Observe("executeOnMain", <<code>>, Void, <<>>,
                      <<Invoke("py_execute", <<code>>, r, NULL)>>)
    /\ UNCHANGED <<tableVars, procVars, hostVars>>

(***************************************************************************)
(* Any other call through a slot that is still nil.                        *)
(***************************************************************************)
\* the first slot each operation calls through
FirstSlot ==
    [ parseArgsToString |-> "pyarg_parsetuple", parseArgsToDouble |-> "pyarg_parsetuple",
      parseArgsToLongInt |-> "pyarg_parsetuple", parseArgsToObject |-> "pyarg_parsetuple",
      parseArgsToObjectPair |-> "pyarg_parsetuple",
      parseArgsToObjectTriple |-> "pyarg_parsetuple",
      wrapLongInt |-> "py_buildvalue", wrapString |-> "py_buildvalue",
      wrapDouble |-> "py_buildvalue", wrapObject |-> "py_buildvalue",
      wrapBool |-> "py_boolfromlong", stringFromPythonObject |-> "pyunicode_asutf8",
      createPyCFunction |-> "py_createPyCFunction",
      executePythonCode |-> "py_getitemstring", getPythonExecutionGlobals |-> "py_getglobals",
      setItemInGlobalDictionary |-> "py_import_addmodule",
      getItemFromGlobalDictionary |-> "py_import_addmodule",
      getAttrString |-> "py_object_getattrstring", setAttrString |-> "py_object_setattrstring",
      getModule |-> "py_import_addmodule", printErrors |-> "py_errorprint",
      clearErrors |-> "py_error_clear", runInteractiveOne |-> "py_run_interactiveone",
      compileString |-> "py_compile_string", errorRaised |-> "py_err_occurred",
      executeOnMain |-> "py_execute" ]

NilSlotCall ==
    /\ alive
    /\ \E o \in DOMAIN FirstSlot :
        /\ ~Resolved(FirstSlot[o])
        /\ Crash(o, <<>>)

(***************************************************************************)
(* Initial states and next-state relations.                                *)
(***************************************************************************)
InitialDicts ==
    [ main |-> [k \in Keys |-> IF k = BuiltinsKey THEN Builtins ELSE NULL],
      g1 |-> [k \in Keys |-> NULL] ]

InitRest ==
    /\ alive = TRUE
    /\ exitStatus = NULL
    /\ stdout = <<>>
    /\ errInd = NoError
    /\ dicts = InitialDicts
    /\ attrs = [o \in ObjIds |-> [a \in AttrNames |-> NULL]]
    /\ held = NULL
    /\ heldFrom = [by |-> "none", val |-> NULL]
    /\ handleBefore = NULL
    /\ op = "none"
    /\ args = <<>>
    /\ ret = Void
    /\ outs = <<>>
    /\ calls = <<>>

\* The process as it starts: the slots are zero-initialised statics.
InitSymbolTable ==
    /\ build \in {"dlsym", "_WIN32"}
    /\ _pythonLibraryHandle = NULL
    /\ slots = EmptySlots
    /\ InitRest

\* The bridge once initialisePythonLibrary ran on a complete library (dlsym branch).
InitInitialised ==
    /\ build = "dlsym"
    /\ _pythonLibraryHandle = FullLibrary
    /\ slots = SlotsAfterInit("dlsym", EmptySlots, FullLibrary)
    /\ InitRest

\* what the host passes
Objects == {Obj(i) : i \in ObjIds}
\* argument bundles the runtime hands a callback: the tuples of up to three plain
\* objects, a tuple of an int beyond the C long, of an int, of a str, and an object
\* that is no tuple
ParserBundles ==
    {PyTuple(t) : t \in SeqsUpTo(Objects, 3)}
        \cup {PyTuple(<<PyLong(LONG_MAX + 1)>>), PyTuple(<<PyLong(42)>>),
              PyTuple(<<PyStr(<<97>>)>>), Obj("o1")}
\* the reference the last wrapper returned, alone and as the one item of a tuple
HeldRefs == IF held = NULL THEN {} ELSE {held}
HeldBundles == HeldRefs \cup {PyTuple(<<h>>) : h \in HeldRefs}
GlobalsArgs == {DictRef("main"), DictRef("g1"), Obj("o1")}
ShowFlags == {0, 1}
AttrTargets == {Obj("o1"), PyLong(42)}

NextSymbolTable ==
    \/ \E h \in Libraries : initialisePythonLibrary(h)
    \/ \E u \in CStrings : getPyUnicode_FromString(u)
    \/ NilSlotCall
    \/ errorRaised
    \/ clearErrors
    \/ printErrors
    \/ getModule("__main__")

NextParser ==
    \/ \E a \in ParserBundles : parseArgsToString(a)
    \/ \E a \in ParserBundles : parseArgsToDouble(a)
    \/ \E a \in ParserBundles : parseArgsToLongInt(a)
    \/ \E a \in ParserBundles : parseArgsToObject(a)
    \/ \E a \in ParserBundles : parseArgsToObjectPair(a)
    \/ \E a \in ParserBundles : parseArgsToObjectTriple(a)
    \/ clearErrors

NextWrapper ==
    \/ \E n \in Longs : wrapLongInt(n)
    \/ \E u \in CStrings \cup {NULL} : wrapString(u)
    \/ \E d \in Doubles : wrapDouble(d)
    \/ \E o \in {Obj("o1"), NULL} : wrapObject(o)
    \/ \E n \in {0, 42} : wrapBool(n)
    \/ \E a \in HeldBundles : parseArgsToString(a)
    \/ \E a \in HeldBundles : parseArgsToDouble(a)
    \/ \E a \in HeldBundles : parseArgsToLongInt(a)
    \/ \E a \in HeldBundles : parseArgsToObject(a)
    \/ \E p \in HeldRefs : stringFromPythonObject(p)
    \/ clearErrors

NextBridge ==
    \/ \E code \in Codes, start \in StartModes, g \in GlobalsArgs, show \in ShowFlags :
          executePythonCode(code, start, g, g, show)
    \/ \E key \in Keys, v \in Objects : setItemInGlobalDictionary(key, v)
    \/ \E key \in Keys : getItemFromGlobalDictionary(key)
    \/ \E o \in AttrTargets, a \in AttrNames : getAttrString(o, a)
    \/ \E o \in AttrTargets, a \in AttrNames, v \in Objects \cup {NULL} : setAttrString(o, a, v)
    \/ getModule("other")
    \/ \E code \in Codes : compileString(code, "<string>", Py_file_input)
    \/ \E code \in Codes : executeOnMain(code)
    \/ printErrors
    \/ clearErrors
    \/ errorRaised

SpecSymbolTable == InitSymbolTable /\ [][NextSymbolTable]_vars
SpecParser == InitInitialised /\ [][NextParser]_vars
SpecWrapper == InitInitialised /\ [][NextWrapper]_vars
SpecBridge == InitInitialised /\ [][NextBridge]_vars

(***************************************************************************)
(* Symbol table: C4, C5, C6 (under SpecSymbolTable).                       *)
(***************************************************************************)
\* C4: after initialisePythonLibrary(handle) the nil slots are exactly the slots whose
\* symbol the library lacks, and every other of the 22 slots holds the address of its
\* symbol in that library, on the _WIN32 branch as on the dlsym branch.
C4_NilSlotsAreTheMissingSymbols ==
    op = "initialisePythonLibrary" =>
        \A s \in SlotNames :
            slots[s] = IF SymbolOf[s] \in args[1].missing THEN NULL
                       ELSE Addr(args[1], SymbolOf[s])

\* C5: initialising again with the handle the table was initialised with leaves every
\* slot and the stored handle as they were, and no other operation writes either.
C5_InitialiseIdempotent ==
    [][ /\ (op' = "initialisePythonLibrary" /\ args'[1] = _pythonLibraryHandle)
            => (slots' = slots /\ _pythonLibraryHandle' = _pythonLibraryHandle)
        /\ op' # "initialisePythonLibrary"
            => (slots' = slots /\ _pythonLibraryHandle' = _pythonLibraryHandle) ]_vars

\* a second initialisation with the same handle has run, on a library lacking a symbol
C5_Witness ==
    /\ op = "initialisePythonLibrary"
    /\ handleBefore = _pythonLibraryHandle
    /\ args[1].missing = {"PyRun_String"}
    /\ slots["py_runString"] = NULL
    /\ slots["pyarg_parsetuple"] # NULL

\* C6: getPyUnicode_FromString with a nil pyunicode_fromstring slot prints the message
\* and ends the process with status 1, having called nothing and without returning;
\* with the slot resolved it calls that slot once with the string and returns the
\* call's result.
C6_FailFastOnNilSlot ==
    op = "getPyUnicode_FromString" =>
        IF slots["pyunicode_fromstring"] = NULL
        THEN /\ ~alive
             /\ exitStatus = [kind |-> "exit", status |-> 1]
             /\ stdout = <<Python2Message>>
             /\ calls = <<>>
             /\ ret = NoReturn
        ELSE /\ alive
             /\ stdout = <<>>
             /\ Len(calls) = 1
             /\ calls[1].fn = slots["pyunicode_fromstring"]
             /\ calls[1].fn.sym = "PyUnicode_FromString"
             /\ calls[1].args = args
             /\ ret = calls[1].ret

\* the fail-fast case: the library lacks PyUnicode_FromString and the process exited
C6_Witness ==
    /\ op = "getPyUnicode_FromString"
    /\ _pythonLibraryHandle # NULL
    /\ "PyUnicode_FromString" \in _pythonLibraryHandle.missing
    /\ ~alive
    /\ exitStatus = [kind |-> "exit", status |-> 1]

(***************************************************************************)
(* Argument parser: C9 (under SpecParser).                                 *)
(***************************************************************************)
\* the format the claim gives each parser
ClaimedFormat ==
    [ parseArgsToString |-> "s", parseArgsToDouble |-> "d", parseArgsToLongInt |-> "l",
      parseArgsToObject |-> "O", parseArgsToObjectPair |-> "OO",
      parseArgsToObjectTriple |-> "OOO" ]

\* C9: every parser makes one call of the parse entry point with its format and stores
\* that call's status, as it is, through error.  parseArgsToObjectPair on a bundle of
\* two references returns the first, stores the second through objectB and a nonzero
\* status through error; on a bundle of one reference it stores status 0, and what it
\* returns and stores through objectB is whatever its unassigned locals held.
C9_StatusVerbatim ==
    op \in DOMAIN ClaimedFormat =>
        /\ Len(calls) = 1
        /\ calls[1].fn.sym = "PyArg_ParseTuple"
        /\ calls[1].args = <<args[1], ClaimedFormat[op]>>
        /\ outs.error = calls[1].ret
        /\ (op = "parseArgsToObjectPair" /\ args[1].kind = "tuple") =>
              /\ Len(args[1].items) = 2 =>
                    /\ ret = args[1].items[1]
                    /\ outs.objectB = args[1].items[2]
                    /\ outs.error # 0
              /\ Len(args[1].items) = 1 =>
                    /\ outs.error = 0
                    /\ ret \in JunkPointers
                    /\ outs.objectB \in JunkPointers

\* the pair parser returned both references of a two-reference bundle, in order
C9_Witness ==
    /\ op = "parseArgsToObjectPair"
    /\ args[1] = PyTuple(<<Obj("o1"), Obj("o2")>>)
    /\ ret = Obj("o1")
    /\ outs.objectB = Obj("o2")
    /\ outs.error = 1

(***************************************************************************)
(* Value wrapper and parser: C10 (under SpecWrapper).                      *)
(***************************************************************************)
\* C10 as stated: the object a wrapper returned, handed to the matching parser as the
\* argument bundle, parses back to the wrapped value with a success status.
C10_WrappedObjectParsesBack ==
    /\ (op = "parseArgsToLongInt" /\ heldFrom.by = "wrapLongInt" /\ args[1] = held)
          => (outs.error # 0 /\ ret = heldFrom.val)
    /\ (op = "parseArgsToString" /\ heldFrom.by = "wrapString" /\ args[1] = held)
          => (outs.error # 0 /\ ret = heldFrom.val)

\* C10 as amended: the wrapped object is no argument bundle, and the parser given it
\* reports failure; given the one-item tuple that holds it, parseArgsToLongInt returns
\* the long that was wrapped and parseArgsToString a string equal to the one wrapped,
\* each with status 1.
C10_RoundTripThroughTuple ==
    /\ (op = "parseArgsToLongInt" /\ heldFrom.by = "wrapLongInt") =>
          /\ args[1] = PyTuple(<<held>>) => (outs.error = 1 /\ ret = heldFrom.val)
          /\ args[1] = held => outs.error = 0
    /\ (op = "parseArgsToString" /\ heldFrom.by = "wrapString" /\ heldFrom.val # NULL) =>
          /\ args[1] = PyTuple(<<held>>) => (outs.error = 1 /\ ret = heldFrom.val)
          /\ args[1] = held => outs.error = 0

\* 42 was wrapped with 'l' and parsed back with 'l' from the tuple holding it
C10_Witness ==
    /\ op = "parseArgsToLongInt"
    /\ heldFrom = [by |-> "wrapLongInt", val |-> 42]
    /\ args[1] = PyTuple(<<held>>)
    /\ ret = 42
    /\ outs.error = 1

(***************************************************************************)
(* Execution bridge: C1, C2, C3, C7, C8 (under SpecBridge).                *)
(***************************************************************************)
\* the positions, in the last operation's calls, of the calls of entry point sym
CallsTo(sym) == {i \in 1..Len(calls) : calls[i].fn.sym = sym}
Runs == CallsTo("PyRun_String")
Reports == CallsTo("PyErr_Print") \cup CallsTo("PyErr_Clear")
RanInvalid == \E i \in Runs : calls[i].ret = NULL /\ calls[i].err # NoError
RanValid == \E i \in Runs : calls[i].ret # NULL

C1_AfterRun ==
    (op = "executePythonCode" /\ Runs # {}) =>
        /\ errInd = NoError
        /\ calls[Len(calls)].err = NoError
        /\ RanInvalid => ret = NULL

ReportFor(showErrors) == IF showErrors # 0 THEN "PyErr_Print" ELSE "PyErr_Clear"

\* C2 as stated: every call invokes py_runString and, after it, exactly one of the
\* print and clear entry points: print when showErrors is nonzero, clear when zero.
C2_ExactlyOneReportPerCall ==
    op = "executePythonCode" =>
        /\ Runs # {}
        /\ Cardinality(Reports) = 1
        /\ \A e \in Reports :
              /\ calls[e].fn.sym = ReportFor(args[5])
              /\ \A r \in Runs : r < e

\* C2 as amended: a call invokes py_runString at most once; a call that invokes it
\* invokes after it exactly one of the print and clear entry points, print when
\* showErrors is nonzero and clear when zero; a call whose builtins injection is seen
\* to fail invokes none of the three and returns NULL.
C2_OneReportAfterEachRun ==
    op = "executePythonCode" =>
        /\ Cardinality(Runs) <= 1
        /\ Runs # {} =>
              /\ Cardinality(Reports) = 1
              /\ \A e \in Reports :
                    /\ calls[e].fn.sym = ReportFor(args[5])
                    /\ \A r \in Runs : r < e
        /\ Runs = {} =>
              /\ Reports = {}
              /\ ret = NULL
              /\ CallsTo("PyDict_SetItemString") # {}
        /\ (\E i \in CallsTo("PyDict_SetItemString") : calls[i].ret # 0) => Runs = {}

\* a silent call on a dictionary that needed the injection ran the text, then cleared
C2_Witness ==
    /\ op = "executePythonCode"
    /\ args[3] = DictRef("g1")
    /\ args[5] = 0
    /\ Runs # {}
    /\ CallsTo("PyErr_Clear") # {}
    /\ CallsTo("PyDict_SetItemString") # {}

\* C3: executePythonCode first looks "__builtins__" up in globals; py_runString is only
\* invoked on a globals that has the binding; when the lookup finds nothing the bridge
\* sets the key to what py_evalgetbuiltins returned before it runs the text; when the
\* lookup finds a binding the bridge writes nothing and the text sees that binding; and
\* when the injection reports failure the call returns NULL and runs nothing.
C3_RunOnlyWithBuiltinsBound ==
    op = "executePythonCode" =>
        /\ calls[1].fn.sym = "PyDict_GetItemString"
        /\ calls[1].args = <<args[3], "__builtins__">>
        /\ \A i \in Runs : calls[i].sees # NULL
        /\ IF calls[1].ret = NULL
           THEN /\ Len(calls) >= 3
                /\ calls[2].fn.sym = "PyEval_GetBuiltins"
                /\ calls[3].fn.sym = "PyDict_SetItemString"
                /\ calls[3].args = <<args[3], "__builtins__", calls[2].ret>>
                /\ calls[3].ret # 0 => (ret = NULL /\ Runs = {})
                /\ \A i \in Runs : i > 3 /\ calls[i].sees = calls[2].ret
           ELSE /\ CallsTo("PyDict_SetItemString") = {}
                /\ \A i \in Runs : calls[i].sees = calls[1].ret

\* the lookup found nothing, the builtins were injected and the text ran
C3_Witness ==
    /\ op = "executePythonCode"
    /\ calls[1].ret = NULL
    /\ Runs # {}
    /\ dicts["g1"]["__builtins__"] = Builtins

\* C7: setItemInGlobalDictionary(k, v) binds k to v in the dictionary of "__main__";
\* getItemFromGlobalDictionary(k) returns what k is bound to there and changes
\* nothing; so a get right after a set of the same key returns the value set, and a
\* get after any sequence of sets and gets returns the value of the last set of the key.
C7_GlobalRoundTrip ==
    [][ /\ op' = "setItemInGlobalDictionary"
            => dicts' = [dicts EXCEPT !["main"][args'[1]] = args'[2]]
        /\ op' = "getItemFromGlobalDictionary"
            => (ret' = dicts["main"][args'[1]] /\ dicts' = dicts)
        /\ (op = "setItemInGlobalDictionary" /\ op' = "getItemFromGlobalDictionary"
                /\ args'[1] = args[1])
            => ret' = args[2] ]_vars

\* a get returned an object that only a set can have bound
C7_Witness ==
    /\ op = "getItemFromGlobalDictionary"
    /\ args[1] = "k"
    /\ ret = Obj("o2")

\* C8: setAttrString returns 1 exactly when the set-attribute entry point returned 0
\* and 0 for every other status; and a getAttrString of the same object and attribute
\* issued right after a setAttrString that returned 1 returns the value that was set.
C8_SetAttrFlagAndRoundTrip ==
    [][ /\ op' = "setAttrString" =>
              /\ Len(calls') = 1
              /\ calls'[1].fn.sym = "PyObject_SetAttrString"
              /\ calls'[1].args = args'
              /\ ret' = IF calls'[1].ret = 0 THEN 1 ELSE 0
        /\ (op = "setAttrString" /\ ret = 1 /\ op' = "getAttrString"
                /\ args'[1] = args[1] /\ args'[2] = args[2])
            => ret' = args[3] ]_vars

\* a get returned an object a successful set stored
C8_Witness ==
    /\ op = "getAttrString"
    /\ args[1] = Obj("o1")
    /\ ret = Obj("o2")

====
